---- MODULE Spec2Model ----
(***************************************************************************)
(* MostMinimalWebFramework: the request parser, the route table, the       *)
(* dispatcher and the two connection drivers (the blocking accept loop of  *)
(* most_minimal_web_framework.py and the asyncio server of                 *)
(* MostMinimalWebFramework.py).                                            *)
(*                                                                         *)
(* A Python str is a sequence of characters and a bytes object a sequence  *)
(* of bytes.  An ASCII character or byte is the one-character string       *)
(* itself; "CR", "LF" and "TAB" are carriage return, line feed and tab;    *)
(* "U+00E9" is the character e-acute, whose UTF-8 encoding is the two      *)
(* bytes "0xC3" "0xA9"; "0xFF" is a byte that occurs in no UTF-8 text.     *)
(***************************************************************************)
EXTENDS Integers, Sequences, FiniteSets, TLC

VARIABLES variant, route_table, server, run, tasks, resolved, parse_call,
          registered

vars ==
    <<variant, route_table, server, run, tasks, resolved, parse_call,
      registered>>

----------------------------------------------------------------------------
(* str and bytes operations of Python, as the source uses them             *)

CRLF == <<"CR","LF">>

Min(a, b) == IF a < b THEN a ELSE b

Max(a, b) == IF a > b THEN a ELSE b

\* s[:n] for n >= 0
Take(s, n) == SubSeq(s, 1, Min(n, Len(s)))

\* s[n:] for n >= 0
Drop(s, n) == SubSeq(s, Min(n, Len(s)) + 1, Len(s))

\* s[:j], j possibly negative (str.find gives -1 when nothing is found)
PySliceTo(s, j) == IF j >= 0 THEN Take(s, j) ELSE Take(s, Max(Len(s) + j, 0))

\* s.startswith(p)
StartsWith(s, p) == Len(p) <= Len(s) /\ SubSeq(s, 1, Len(p)) = p

\* s.find(sub): the 0-based index of the first occurrence, -1 when there is none
PyFind(s, sub) ==
    LET hits == {i \in 1..(Len(s) - Len(sub) + 1) :
                     \A k \in 1..Len(sub) : s[i + k - 1] = sub[k]}
    IN  IF hits = {} THEN -1
        ELSE (CHOOSE i \in hits : \A k \in hits : i <= k) - 1

\* s.rfind(sub)
PyRFind(s, sub) ==
    LET hits == {i \in 1..(Len(s) - Len(sub) + 1) :
                     \A k \in 1..Len(sub) : s[i + k - 1] = sub[k]}
    IN  IF hits = {} THEN -1
        ELSE (CHOOSE i \in hits : \A k \in hits : i >= k) - 1

RECURSIVE PySplit(_, _)
\* s.split(sep), sep not empty: "".split(sep) is [""]
PySplit(s, sep) ==
    LET k == PyFind(s, sep)
    IN  IF k < 0 THEN <<s>>
        ELSE <<Take(s, k)>> \o PySplit(Drop(s, k + Len(sep)), sep)

RECURSIVE PyJoin(_)
\* "".join(parts), by halves
PyJoin(parts) ==
    IF Len(parts) = 0 THEN <<>>
    ELSE IF Len(parts) = 1 THEN parts[1]
    ELSE LET h == Len(parts) \div 2
         IN  PyJoin(SubSeq(parts, 1, h)) \o PyJoin(SubSeq(parts, h + 1, Len(parts)))

LowerCase == <<"a","b","c","d","e","f","g","h","i","j","k","l","m","n","o","p","q","r","s","t","u","v","w","x","y","z">> \o <<"U+00E9">>

UpperCase == <<"A","B","C","D","E","F","G","H","I","J","K","L","M","N","O","P","Q","R","S","T","U","V","W","X","Y","Z">> \o <<"U+00C9">>

UpperChar(c) ==
    IF \E i \in 1..Len(LowerCase) : LowerCase[i] = c
    THEN UpperCase[CHOOSE i \in 1..Len(LowerCase) : LowerCase[i] = c]
    ELSE c

\* s.upper()
Upper(s) == [i \in 1..Len(s) |-> UpperChar(s[i])]

Digits == <<"0","1","2","3","4","5","6","7","8","9">>

IsDigit(c) == \E i \in 1..10 : Digits[i] = c

DigitValue(c) == (CHOOSE i \in 1..10 : Digits[i] = c) - 1

RECURSIVE IntToStr(_)
\* str(n) for n >= 0
IntToStr(n) ==
    IF n < 10 THEN <<Digits[n + 1]>>
    ELSE IntToStr(n \div 10) \o <<Digits[(n % 10) + 1]>>

RECURSIVE StrToInt(_)
\* int(s) for a string of decimal digits
StrToInt(s) ==
    IF s = <<>> THEN 0
    ELSE 10 * StrToInt(Take(s, Len(s) - 1)) + DigitValue(s[Len(s)])

\* the UTF-8 bytes of one character
\* the characters above U+007F
WideChars == {"U+00E9", "U+00C9"}

EncodeChar(c) ==
    CASE c = "U+00E9" -> <<"0xC3", "0xA9">>
      [] c = "U+00C9" -> <<"0xC3", "0x89">>
      [] OTHER -> <<c>>

RECURSIVE Encode(_)
\* s.encode(): UTF-8. The characters up to the first one above U+007F are
\* copied, that character is encoded, and so on from there.
Encode(s) ==
    LET wide == {i \in 1..Len(s) : s[i] \in WideChars}
    IN  IF wide = {} THEN s
        ELSE LET i == CHOOSE k \in wide : \A m \in wide : k <= m
             IN  SubSeq(s, 1, i - 1) \o EncodeChar(s[i])
                 \o Encode(SubSeq(s, i + 1, Len(s)))

LeadBytes == {"0xC3"}

ContinuationBytes == {"0xA9", "0x89"}

\* the bytes above 0x7F
HighBytes == LeadBytes \cup ContinuationBytes \cup {"0xFF"}

\* the character a two-byte sequence encodes
DecodePair(lead, cont) == IF cont = "0xA9" THEN "U+00E9" ELSE "U+00C9"

RECURSIVE DecodeText(_)
\* the characters of well-formed UTF-8 bytes: the bytes up to the first one
\* above 0x7F are copied, the two-byte sequence there gives one character,
\* and so on from there
DecodeText(b) ==
    LET high == {i \in 1..Len(b) : b[i] \in HighBytes}
    IN  IF high = {} THEN b
        ELSE LET i == CHOOSE k \in high : \A m \in high : k <= m
             IN  IF i < Len(b)
                 THEN SubSeq(b, 1, i - 1) \o <<DecodePair(b[i], b[i + 1])>>
                      \o DecodeText(SubSeq(b, i + 2, Len(b)))
                 ELSE SubSeq(b, 1, i - 1)

\* b.decode(): UTF-8; ok is FALSE where Python raises UnicodeDecodeError: a
\* byte above 0x7F that is neither a lead byte followed by a continuation
\* byte nor a continuation byte after a lead byte
Decode(b) ==
    LET lead(i) == b[i] \in LeadBytes /\ i < Len(b) /\ b[i + 1] \in ContinuationBytes
        cont(i) == b[i] \in ContinuationBytes /\ i > 1 /\ b[i - 1] \in LeadBytes
        ascii(i) == b[i] \notin HighBytes
    IN  IF \A i \in 1..Len(b) : ascii(i) \/ lead(i) \/ cont(i)
        THEN [ok |-> TRUE, s |-> DecodeText(b)]
        ELSE [ok |-> FALSE, s |-> <<>>]

----------------------------------------------------------------------------
(* dict: Python dicts keep insertion order; a dict is a sequence of        *)
(* <<key, value>> pairs with distinct keys                                 *)

DictHas(d, k) == \E i \in 1..Len(d) : d[i][1] = k

DictGet(d, k) == d[CHOOSE i \in 1..Len(d) : d[i][1] = k][2]

\* d[k] = v
DictSet(d, k, v) ==
    IF DictHas(d, k)
    THEN [i \in 1..Len(d) |-> IF d[i][1] = k THEN <<k, v>> ELSE d[i]]
    ELSE Append(d, <<k, v>>)

----------------------------------------------------------------------------
(* JSON values: a str, an int, None or a dict with str keys.  The other    *)
(* JSON forms (arrays, floats, true, false, escape sequences in strings)   *)
(* are outside the modelled inputs.                                        *)

JNull == [t |-> "null", s |-> <<>>, n |-> 0, kv |-> <<>>]

JStr(chars) == [t |-> "str", s |-> chars, n |-> 0, kv |-> <<>>]

JInt(k) == [t |-> "int", s |-> <<>>, n |-> k, kv |-> <<>>]

JObj(pairs) == [t |-> "dict", s |-> <<>>, n |-> 0, kv |-> pairs]

JFail == [ok |-> FALSE, v |-> JNull, pos |-> 0]

JWhitespace == {" ", "CR", "LF"}

\* the first position >= i of s that holds no whitespace (Len(s) + 1: none)
SkipWs(s, i) ==
    LET rest == {k \in i..Len(s) : s[k] \notin JWhitespace}
    IN  IF rest = {} THEN Max(i, Len(s) + 1)
        ELSE CHOOSE k \in rest : \A m \in rest : k <= m

\* a string literal starting at the quote s[i]
JParseString(s, i) ==
    LET close == {k \in (i + 1)..Len(s) : s[k] = "\""}
    IN  IF close = {} THEN JFail
        ELSE LET j == CHOOSE k \in close : \A m \in close : k <= m
                 inner == SubSeq(s, i + 1, j - 1)
             IN  IF \E k \in 1..Len(inner) : inner[k] \in {"\\", "CR", "LF"}
                 THEN JFail
                 ELSE [ok |-> TRUE, v |-> JStr(inner), pos |-> j + 1]

\* a number starting at the digit s[i]: 0, or a nonzero digit and more digits
JParseInt(s, i) ==
    LET stop == {k \in i..Len(s) : ~IsDigit(s[k])}
        e == IF s[i] = "0" THEN i + 1
             ELSE IF stop = {} THEN Len(s) + 1
             ELSE CHOOSE k \in stop : \A m \in stop : k <= m
    IN  [ok |-> TRUE, v |-> JInt(StrToInt(SubSeq(s, i, e - 1))), pos |-> e]

RECURSIVE JParseValue(_, _), JParseMembers(_, _, _)
JParseValue(s, i) ==
    IF i > Len(s) THEN JFail
    ELSE IF s[i] = "\"" THEN JParseString(s, i)
    ELSE IF IsDigit(s[i]) THEN JParseInt(s, i)
    ELSE IF StartsWith(Drop(s, i - 1), <<"n","u","l","l">>)
    THEN [ok |-> TRUE, v |-> JNull, pos |-> i + 4]
    ELSE IF s[i] = "{"
    THEN LET k == SkipWs(s, i + 1)
         IN  IF k <= Len(s) /\ s[k] = "}"
             THEN [ok |-> TRUE, v |-> JObj(<<>>), pos |-> k + 1]
             ELSE JParseMembers(s, k, <<>>)
    ELSE JFail

\* the members of an object from the key at s[i] on, acc the pairs so far
JParseMembers(s, i, acc) ==
    IF i > Len(s) \/ s[i] # "\"" THEN JFail
    ELSE LET key == JParseString(s, i)
             colon == SkipWs(s, key.pos)
         IN  IF ~key.ok \/ colon > Len(s) \/ s[colon] # ":" THEN JFail
             ELSE LET val == JParseValue(s, SkipWs(s, colon + 1))
                      nxt == SkipWs(s, val.pos)
                      got == DictSet(acc, key.v.s, val.v)
                  IN  IF ~val.ok \/ nxt > Len(s) THEN JFail
                      ELSE IF s[nxt] = "}"
                      THEN [ok |-> TRUE, v |-> JObj(got), pos |-> nxt + 1]
                      ELSE IF s[nxt] = ","
                      THEN JParseMembers(s, SkipWs(s, nxt + 1), got)
                      ELSE JFail

\* json.loads(s): ok is FALSE where Python raises json.JSONDecodeError
json_loads(s) ==
    LET r == JParseValue(s, SkipWs(s, 1))
    IN  IF r.ok /\ SkipWs(s, r.pos) > Len(s) THEN r ELSE JFail

\* one character inside a JSON string literal (ensure_ascii)
JEscape(c) ==
    CASE c = "\"" -> <<"\\", "\"">>
      [] c = "\\" -> <<"\\", "\\">>
      [] c = "LF" -> <<"\\", "n">>
      [] c = "CR" -> <<"\\", "r">>
      [] c = "U+00E9" -> <<"\\", "u", "0", "0", "e", "9">>
      [] c = "U+00C9" -> <<"\\", "u", "0", "0", "c", "9">>
      [] OTHER -> <<c>>

RECURSIVE JEscapeAll(_)
\* the characters up to the first one that is escaped are copied, that
\* character is escaped, and so on from there
JEscapeAll(s) ==
    LET esc == {i \in 1..Len(s) : JEscape(s[i]) # <<s[i]>>}
    IN  IF esc = {} THEN s
        ELSE LET i == CHOOSE k \in esc : \A m \in esc : k <= m
             IN  SubSeq(s, 1, i - 1) \o JEscape(s[i])
                 \o JEscapeAll(SubSeq(s, i + 1, Len(s)))

RECURSIVE json_dumps(_), JDumpMembers(_)
\* json.dumps(v)
json_dumps(v) ==
    CASE v.t = "str" -> <<"\"">> \o JEscapeAll(v.s) \o <<"\"">>
      [] v.t = "int" -> IntToStr(v.n)
      [] v.t = "null" -> <<"n","u","l","l">>
      [] v.t = "dict" -> <<"{">> \o JDumpMembers(v.kv) \o <<"}">>

JDumpMembers(kv) ==
    IF kv = <<>> THEN <<>>
    ELSE json_dumps(JStr(kv[1][1])) \o <<":"," ">> \o json_dumps(kv[1][2])
         \o (IF Len(kv) > 1 THEN <<","," ">> \o JDumpMembers(Tail(kv)) ELSE <<>>)

----------------------------------------------------------------------------
(* urllib.parse, for request-targets without a scheme and without percent  *)
(* escapes                                                                 *)

\* s.split(sep, 1)
SplitOnce(s, sep) ==
    LET k == PyFind(s, sep)
    IN  IF k < 0 THEN <<s>> ELSE <<Take(s, k), Drop(s, k + Len(sep))>>

\* urllib.parse._splitparams
SplitParams(url) ==
    LET slash == PyRFind(url, <<"/">>)
        semi == IF slash >= 0
                THEN (LET k == PyFind(Drop(url, slash), <<";">>)
                      IN  IF k < 0 THEN -1 ELSE k + slash)
                ELSE PyFind(url, <<";">>)
    IN  IF slash >= 0 /\ semi < 0 THEN url ELSE PySliceTo(url, semi)

\* urllib.parse._UNSAFE_URL_BYTES_TO_REMOVE: the characters urlsplit takes
\* out of a URL
UnsafeUrlBytes == {"TAB", "CR", "LF"}

\* as urlparse, but the path is all of the request-target
urlparse_WholeTarget(target) == [path |-> target, query |-> <<>>]

\* urlparse(url): the path and the query of a request-target
urlparse(target) ==
    LET url == SelectSeq(target, LAMBDA ch : ch \notin UnsafeUrlBytes)
        delims == {i \in 3..Len(url) : url[i] \in {"/", "?", "#"}}
        cut == IF delims = {} THEN Len(url) + 1
               ELSE CHOOSE i \in delims : \A k \in delims : i <= k
        u1 == IF StartsWith(url, <<"/","/">>) THEN Drop(url, cut - 1) ELSE url
        u2 == SplitOnce(u1, <<"#">>)[1]
        pq == SplitOnce(u2, <<"?">>)
        p  == IF PyFind(pq[1], <<";">>) >= 0 THEN SplitParams(pq[1]) ELSE pq[1]
    IN  [path |-> p, query |-> IF Len(pq) = 2 THEN pq[2] ELSE <<>>]

\* s.replace("+", " ")
PlusToSpace(s) == [i \in 1..Len(s) |-> IF s[i] = "+" THEN " " ELSE s[i]]

RECURSIVE ParseQsFields(_, _)
ParseQsFields(fields, acc) ==
    IF fields = <<>> THEN acc
    ELSE LET nv == SplitOnce(Head(fields), <<"=">>)
         IN  IF Len(nv) # 2 \/ nv[2] = <<>>
             THEN ParseQsFields(Tail(fields), acc)
             ELSE LET name == PlusToSpace(nv[1])
                      value == PlusToSpace(nv[2])
                      old == IF DictHas(acc, name) THEN DictGet(acc, name) ELSE <<>>
                  IN  ParseQsFields(Tail(fields),
                                    DictSet(acc, name, Append(old, value)))

\* parse_qs(qs): each name to the list of its values, blank values dropped
parse_qs(qs) ==
    IF qs = <<>> THEN <<>> ELSE ParseQsFields(PySplit(qs, <<"&">>), <<>>)

----------------------------------------------------------------------------
(* Request, Response, ApiException                                         *)

Request(method, headers, path, query_params, body) ==
    [method |-> method, headers |-> headers, path |-> path,
     query_params |-> query_params, body |-> body]

TextHtml == <<"t","e","x","t","/","h","t","m","l">>

ApplicationJson == <<"a","p","p","l","i","c","a","t","i","o","n","/","j","s","o","n">>

\* Response(body, status_code=200, content_type="text/html")
Response(body, status, ctype) ==
    [type |-> "Response", body |-> body, status_code |-> status,
     content_type |-> ctype]

\* ApiException(body, status_code): the dataclass __init__ of Response sets
\* content_type to its default
ApiException(body, status) ==
    [type |-> "ApiException", body |-> body, status_code |-> status,
     content_type |-> TextHtml]

\* None, where a Response is expected
PyNone ==
    [type |-> "NoneType", body |-> JNull, status_code |-> 0,
     content_type |-> <<>>]

\* what a call gives: raised is "" for a normal return, else the exception's
\* class; value is the value returned, or the ApiException raised
Return(value) == [raised |-> "", value |-> value]

Raise(exc) == [raised |-> exc, value |-> PyNone]

RaiseApi(e) == [raised |-> "ApiException", value |-> e]

\* JSONResponse(body) of most_minimal_web_framework.py
JSONResponse_sync(body) == Return(Response(body, 200, ApplicationJson))

\* JSONResponse(body) of MostMinimalWebFramework.py: __new__ hands body to
\* object.__new__ as the class
JSONResponse_async(body) == Raise("TypeError")

JSONResponse(v, body) ==
    IF v = "sequential" THEN JSONResponse_sync(body) ELSE JSONResponse_async(body)

----------------------------------------------------------------------------
(* request_parser                                                          *)

RECURSIVE ParseHeaders(_, _, _)
\* the loop with the value taken from the character after the colon
\* (line[j + 1:]) instead of the one after that
ParseHeaders_ValueAfterColon(request_lines, i, headers) ==
    IF i > Len(request_lines)
    THEN [headers |-> headers, bound |-> FALSE, body |-> JNull]
    ELSE LET line == request_lines[i]
             rest == PyJoin(SubSeq(request_lines, i + 1, Len(request_lines)))
             j == PyFind(line, <<":">>)
         IN  IF line = <<>>
             THEN [headers |-> headers, bound |-> TRUE,
                   body |-> IF json_loads(rest).ok THEN json_loads(rest).v
                            ELSE JStr(rest)]
             ELSE ParseHeaders(request_lines, i + 1,
                               DictSet(headers, Upper(PySliceTo(line, j)),
                                       Drop(line, j + 1)))

\* the loop without its break: the lines after the empty line are read as
\* headers too
ParseHeaders_NoBreak(request_lines, i, headers) ==
    IF i > Len(request_lines)
    THEN [headers |-> headers, bound |-> FALSE, body |-> JNull]
    ELSE LET line == request_lines[i]
             rest == PyJoin(SubSeq(request_lines, i + 1, Len(request_lines)))
             j == PyFind(line, <<":">>)
         IN  IF line = <<>>
             THEN [ParseHeaders(request_lines, i + 1, headers)
                       EXCEPT !.bound = TRUE,
                              !.body = IF json_loads(rest).ok
                                       THEN json_loads(rest).v ELSE JStr(rest)]
             ELSE ParseHeaders(request_lines, i + 1,
                               DictSet(headers, Upper(PySliceTo(line, j)),
                                       Drop(line, j + 2)))

\* the loop over request_lines[1:], from line i (1-based) on: the headers,
\* and the body once an empty line is met (bound is FALSE when none is)
ParseHeaders(request_lines, i, headers) ==
    IF i > Len(request_lines)
    THEN [headers |-> headers, bound |-> FALSE, body |-> JNull]
    ELSE LET line == request_lines[i]
             rest == PyJoin(SubSeq(request_lines, i + 1, Len(request_lines)))
             j == PyFind(line, <<":">>)
         IN  IF line = <<>>
             THEN [headers |-> headers, bound |-> TRUE,
                   body |-> IF json_loads(rest).ok THEN json_loads(rest).v
                            ELSE JStr(rest)]
             ELSE ParseHeaders(request_lines, i + 1,
                               DictSet(headers, Upper(PySliceTo(line, j)),
                                       Drop(line, j + 2)))

NoRequest == Request(<<>>, <<>>, <<>>, <<>>, JNull)

request_parser(request_str) ==
    LET request_lines == PySplit(request_str, CRLF)
        first == PySplit(request_lines[1], <<" ">>)
        hb == ParseHeaders(request_lines, 2, <<>>)
        url == urlparse(first[2])
    IN  IF Len(first) # 3 THEN [raised |-> "ValueError", req |-> NoRequest]
        ELSE IF ~hb.bound THEN [raised |-> "UnboundLocalError", req |-> NoRequest]
        ELSE [raised |-> "",
              req |-> Request(first[1], hb.headers, url.path,
                              parse_qs(url.query), hb.body)]

----------------------------------------------------------------------------
(* the route table: re.compile(path + "$") and pattern.match               *)

Atom(kind, c, star) == [kind |-> kind, c |-> c, star |-> star]

RECURSIVE ReCompile(_)
\* re.compile for the patterns of literals, ".", "[^/]", "*" and "$"
ReCompile(p) ==
    IF p = <<>> THEN <<>>
    ELSE LET cls == StartsWith(p, <<"[","^","/","]">>)
             n == IF cls THEN 4 ELSE 1
             star == Len(p) > n /\ p[n + 1] = "*"
             kind == IF cls THEN "notslash"
                     ELSE IF p[1] = "." THEN "any"
                     ELSE IF p[1] = "$" THEN "end"
                     ELSE "lit"
         IN  <<Atom(kind, p[1], star)>>
             \o ReCompile(Drop(p, IF star THEN n + 1 ELSE n))

Accepts(atom, ch) ==
    CASE atom.kind = "lit" -> ch = atom.c
      [] atom.kind = "any" -> ch # "LF"
      [] atom.kind = "notslash" -> ch # "/"
      [] OTHER -> FALSE

RECURSIVE MatchFrom(_, _, _, _)
\* whether the atoms from i on match s from position j on; "$" matches at the
\* end of s and before a line feed that ends s
MatchFrom(atoms, i, s, j) ==
    IF i > Len(atoms) THEN TRUE
    ELSE LET a == atoms[i]
         IN  IF a.kind = "end"
             THEN (j = Len(s) + 1 \/ (j = Len(s) /\ s[j] = "LF"))
                  /\ MatchFrom(atoms, i + 1, s, j)
             ELSE IF a.star
             THEN \E k \in j..(Len(s) + 1) :
                      /\ MatchFrom(atoms, i + 1, s, k)
                      /\ \A m \in j..(k - 1) : Accepts(a, s[m])
             ELSE j <= Len(s) /\ Accepts(a, s[j])
                  /\ MatchFrom(atoms, i + 1, s, j + 1)

\* pattern.match(path)
ReMatch(atoms, path) == MatchFrom(atoms, 1, path, 1)

\* the entry route(path)(func) appends
RouteEntry(path, func) == <<ReCompile(path \o <<"$">>), func>>

\* get_route_function with the last matching entry winning
get_route_function_last(table, searched_path) ==
    LET hits == {i \in 1..Len(table) : ReMatch(table[i][1], searched_path)}
    IN  IF hits = {} THEN [raised |-> "StopIteration", handler |-> ""]
        ELSE [raised |-> "",
              handler |-> table[CHOOSE i \in hits : \A k \in hits : i >= k][2]]

\* get_route_function with next() given a default, the last entry
get_route_function_default(table, searched_path) ==
    LET hits == {i \in 1..Len(table) : ReMatch(table[i][1], searched_path)}
    IN  IF table = <<>> THEN [raised |-> "StopIteration", handler |-> ""]
        ELSE IF hits = {} THEN [raised |-> "", handler |-> table[Len(table)][2]]
        ELSE [raised |-> "",
              handler |-> table[CHOOSE i \in hits : \A k \in hits : i <= k][2]]

RECURSIVE NextMatch(_, _, _)
\* next(r[1] for r in self.route_table if r[0].match(searched_path)), the
\* generator at entry i: next() raises StopIteration when it is exhausted
NextMatch(table, i, searched_path) ==
    IF i > Len(table) THEN [raised |-> "StopIteration", handler |-> ""]
    ELSE IF ReMatch(table[i][1], searched_path)
    THEN [raised |-> "", handler |-> table[i][2]]
    ELSE NextMatch(table, i + 1, searched_path)

\* get_route_function: the handler of the first entry that matches
get_route_function(table, searched_path) == NextMatch(table, 1, searched_path)

----------------------------------------------------------------------------
(* the handlers of the example application (examples.py, and the __main__  *)
(* block of MostMinimalWebFramework.py), v the variant they run under      *)

Msg(text) == JObj(<<<<<<"m","s","g">>, JStr(text)>>>>)

f(v, request) == Return(Response(JStr(<<"H","e","l","l","o"," ","W","o","r","l","d">>), 200, TextHtml))

json_response(v, request) == JSONResponse(v, Msg(<<"H","e","l","l","o"," ","W","o","r","l","d">>))

method_handling(v, request) ==
    IF request.method = <<"G","E","T">>
    THEN Return(Response(JStr(<<"Y","o","u","r"," ","m","e","t","h","o","d"," ","i","s"," ","G","E","T">>), 200, TextHtml))
    ELSE IF request.method = <<"P","O","S","T">>
    THEN Return(Response(JStr(<<"Y","o","u","r"," ","m","e","t","h","o","d"," ","i","s"," ","P","O","S","T">>), 200, TextHtml))
    ELSE Return(PyNone)

status_code(v, request) ==
    Return(Response(JStr(<<"D","i","f","f","e","r","e","n","t"," ","s","t","a","t","u","s"," ","c","o","d","e">>), 202, TextHtml))

exception_raising(v, request) ==
    RaiseApi(ApiException(Msg(<<"c","u","s","t","o","m","_","e","x","c","e","p","t","i","o","n">>), 400))

body_handling(v, request) ==
    IF request.body.t = "dict" /\ DictHas(request.body.kv, <<"n","a","m","e">>)
    THEN JSONResponse(v, JObj(<<<<<<"r","e","q","u","e","s","t","_","_","n","a","m","e">>,
                                  DictGet(request.body.kv, <<"n","a","m","e">>)>>>>))
    ELSE RaiseApi(ApiException(Msg(<<"n","a","m","e"," ","f","i","e","l","d"," ","r","e","q","u","i","r","e","d">>), 400))

query_param_handling(v, request) ==
    IF DictHas(request.query_params, <<"q">>)
    THEN JSONResponse(v, JObj(<<<<<<"y","o","u","r","_","q","_","p","a","r","a","m","e","t","e","r">>,
                                  JStr(DictGet(request.query_params, <<"q">>)[1])>>>>))
    ELSE RaiseApi(ApiException(Msg(<<"q"," ","q","u","e","r","y"," ","p","a","r","a","m","t","e","r"," ","r","e","q","u","i","r","e","d">>), 400))

header_handling(v, request) ==
    IF DictHas(request.headers, <<"X","-","T","O","K","E","N">>)
    THEN Return(Response(JStr(<<"y","o","u","r"," ","t","o","k","e","n"," ">>
                              \o DictGet(request.headers, <<"X","-","T","O","K","E","N">>)),
                         200, TextHtml))
    ELSE RaiseApi(ApiException(Msg(<<"U","n"," ","a","u","t","h","o","r","i","z","e","d">>), 403))

\* user_id = request.path[len("/user/"): -len("/posts")]
varialbe_path(v, request) ==
    Return(Response(JStr(<<"p","o","s","t","s"," ","f","o","r"," ">>
                         \o SubSeq(request.path, 7, Len(request.path) - 6)),
                    201, TextHtml))

func_404(v, request) == Return(Response(JStr(<<"4","0","4">>), 404, TextHtml))

\* a coroutine function of an application, as handle_request awaits it: it
\* suspends once and then answers from the request it was called with
awaited_handler(v, request) ==
    Return(Response(JStr(<<"a","w","a","i","t","e","d"," ">> \o request.path), 200, TextHtml))

\* the handlers for which asyncio.iscoroutinefunction(handler) holds
Coroutines == {"awaited_handler"}

\* what calling a coroutine function without awaiting it returns
PyCoroutine == [PyNone EXCEPT !.type = "coroutine"]

\* the failures an application handler may raise that are no ApiException
UnexpectedFailures == {"KeyError", "ZeroDivisionError"}

\* handler(parsed_req): the outcomes of calling the handler named func.
\* failing_handler stands for an application handler that fails unexpectedly.
CallHandler(v, func, request) ==
    CASE func = "f" -> {f(v, request)}
      [] func = "json_response" -> {json_response(v, request)}
      [] func = "method_handling" -> {method_handling(v, request)}
      [] func = "status_code" -> {status_code(v, request)}
      [] func = "exception_raising" -> {exception_raising(v, request)}
      [] func = "body_handling" -> {body_handling(v, request)}
      [] func = "query_param_handling" -> {query_param_handling(v, request)}
      [] func = "header_handling" -> {header_handling(v, request)}
      [] func = "varialbe_path" -> {varialbe_path(v, request)}
      [] func = "func_404" -> {func_404(v, request)}
      [] func = "failing_handler" -> {Raise(e) : e \in UnexpectedFailures}
      [] func = "awaited_handler" ->
             {IF v = "concurrent" THEN awaited_handler(v, request)
              ELSE Return(PyCoroutine)}

\* the routes the application registers, in the order of its decorators
Application ==
    << <<<<"/","f","a","i","l">>, "failing_handler">>,
       <<<<"/">>, "f">>,
       <<<<"/","j","s","o","n","-","r","e","s","p","o","n","s","e","/">>, "json_response">>,
       <<<<"/","m","e","t","h","o","d","-","h","a","n","d","l","i","n","g","/">>, "method_handling">>,
       <<<<"/","s","t","a","t","u","s","-","c","o","d","e","/">>, "status_code">>,
       <<<<"/","r","a","i","s","e","-","e","x","c","e","p","t","i","o","n","/">>, "exception_raising">>,
       <<<<"/","b","o","d","y","-","h","a","n","d","l","e","/">>, "body_handling">>,
       <<<<"/","q","u","e","r","y","-","p","a","r","a","m","-","h","a","n","d","l","i","n","g","/">>, "query_param_handling">>,
       <<<<"/","h","e","a","d","e","r","-","h","a","n","d","l","i","n","g","/">>, "header_handling">>,
       <<<<"/","u","s","e","r","/","[","^","/","]","*","/","p","o","s","t","s">>, "varialbe_path">>,
       <<<<"/",".","*">>, "func_404">> >>

----------------------------------------------------------------------------
(* the dispatcher: the try block of run and of handle_request              *)

\* Response({"msg": "500 - server error"}, 500)
FaultResponse == Response(Msg(<<"5","0","0"," ","-"," ","s","e","r","v","e","r"," ","e","r","r","o","r">>), 500, TextHtml)

\* A local variable that may be unbound is a sequence of at most one value.
Unbound == <<>>

Bound(x) == <<x>>

\* what the try block did: the statement that ended it (stage "parse",
\* "lookup" or "call"; "none" before the try, "await" while suspended in it), the exception that statement
\* raised ("": none) and, for the handler's call, the value it returned or
\* the ApiException it raised
Tried(stage, raised, value) == [stage |-> stage, raised |-> raised, value |-> value]

NotTried == Tried("none", "", PyNone)

\* the except clauses and the handler's call, once request_parser has ended
\* as parsed: caught are the exceptions whose "except" clause binds the
\* raised exception itself as the response
\* except Exception: the traceback is printed and the 500 response bound
Fault(parsed_req, tried) ==
    [parsed_req |-> parsed_req, response |-> Bound(FaultResponse),
     traced |-> tried.raised, tried |-> tried]

\* the handler's call with parsed_req, and the except clauses on what it
\* raises
Called(v, handler, parsed_req, caught) ==
    {IF o.raised = "" \/ o.raised \in caught
     THEN [parsed_req |-> Bound(parsed_req),
           response |-> Bound(o.value), traced |-> "",
           tried |-> Tried("call", o.raised, o.value)]
     ELSE Fault(Bound(parsed_req), Tried("call", o.raised, o.value))
     : o \in CallHandler(v, handler, parsed_req)}

\* await handler(parsed_req): the try block is suspended in the call of the
\* coroutine function handler
Awaiting(parsed_req, handler) ==
    [parsed_req |-> Bound(parsed_req), response |-> Unbound, traced |-> "",
     tried |-> Tried("await", "", PyNone), handler |-> handler]

TryParsed(v, table, parsed, old_parsed_req, caught) ==
    LET route == get_route_function(table, parsed.req.path)
    IN  IF parsed.raised # ""
        THEN {Fault(old_parsed_req, Tried("parse", parsed.raised, PyNone))}
        ELSE IF route.raised # ""
        THEN {Fault(Bound(parsed.req), Tried("lookup", route.raised, PyNone))}
        ELSE IF v = "concurrent" /\ route.handler \in Coroutines
        THEN {Awaiting(parsed.req, route.handler)}
        ELSE Called(v, route.handler, parsed.req, caught)

\* the try block without its "except ApiException" clause: an ApiException
\* is answered like any other failure
TryBlock_ApiAsFault(v, table, request, old_parsed_req) ==
    TryParsed(v, table, request_parser(request), old_parsed_req, {})

\* the outcomes of the try block on the decoded request: parsed_req as it is
\* left (old when the parser raised), the response bound by the try or by an
\* except clause, and the exception whose traceback is printed ("": none)
TryBlock(v, table, request, old_parsed_req) ==
    TryParsed(v, table, request_parser(request), old_parsed_req,
              {"ApiException"})

----------------------------------------------------------------------------
(* build_response                                                          *)

ResponseBody(r) == IF r.body.t = "str" THEN r.body.s ELSE json_dumps(r.body)

WireText(r, content_length) ==
    <<"H","T","T","P","/","1",".","1"," ">> \o IntToStr(r.status_code)
    \o <<"CR","LF","C","o","n","t","e","n","t","-","T","y","p","e",":"," ">> \o r.content_type \o <<";"," ","c","h","a","r","s","e","t","=","u","t","f","-","8">>
    \o <<"CR","LF","C","o","n","t","e","n","t","-","L","e","n","g","t","h",":"," ">> \o IntToStr(content_length)
    \o <<"CR","LF","C","o","n","n","e","c","t","i","o","n",":"," ","c","l","o","s","e","CR","LF","CR","LF">> \o ResponseBody(r)

\* most_minimal_web_framework.py: Content-Length is len(body)
build_response_sync(r) == WireText(r, Len(ResponseBody(r)))

\* MostMinimalWebFramework.py: Content-Length is len(body.encode('utf-8'))
build_response_async(r) == WireText(r, Len(Encode(ResponseBody(r))))

build_response(v, r) ==
    IF v = "sequential" THEN build_response_sync(r) ELSE build_response_async(r)

----------------------------------------------------------------------------
(* the connection drivers                                                  *)

\* the connections the asyncio server serves at once
MaxConns == 2

Conns == 1..MaxConns

\* clientsocket.recv(4096)
RecvSize == 4096

\* reader.read(40960)
ReadSize == 40960

\* what a client may send on a connection
RawRequests ==
    { <<>>,
      <<"0xFF">>,
      <<"G","E","T"," ","/">>,
      <<"G","E","T"," ","/"," ","H","T","T","P","/","1",".","1","CR","LF","H","o","s","t",":"," ","a">>,
      <<"G","E","T"," ","/"," ","H","T","T","P","/","1",".","1","CR","LF","CR","LF">>,
      <<"P","U","T"," ","/","m","e","t","h","o","d","-","h","a","n","d","l","i","n","g","/"," ","H","T","T","P","/","1",".","1","CR","LF","CR","LF">>,
      <<"P","O","S","T"," ","/","m","e","t","h","o","d","-","h","a","n","d","l","i","n","g","/","?","a","=","1"," ","H","T","T","P","/","1",".","1","CR","LF","CR","LF">>,
      <<"G","E","T"," ","/","h","e","a","d","e","r","-","h","a","n","d","l","i","n","g","/"," ","H","T","T","P","/","1",".","1","CR","LF","X","-","T","o","k","e","n",":"," ","0xC3","0xA9","CR","LF","CR","LF">>,
      <<"G","E","T"," ","/","h","e","a","d","e","r","-","h","a","n","d","l","i","n","g","/"," ","H","T","T","P","/","1",".","1","CR","LF","CR","LF">>,
      <<"G","E","T"," ","/","r","a","i","s","e","-","e","x","c","e","p","t","i","o","n","/"," ","H","T","T","P","/","1",".","1","CR","LF","CR","LF">>,
      <<"P","O","S","T"," ","/","b","o","d","y","-","h","a","n","d","l","e","/"," ","H","T","T","P","/","1",".","1","CR","LF","CR","LF","{","}">>,
      <<"P","O","S","T"," ","/","b","o","d","y","-","h","a","n","d","l","e","/"," ","H","T","T","P","/","1",".","1","CR","LF","CR","LF","{","\"","n","a","m","e","\"",":"," ","\"","b","o","b","\"","}">>,
      <<"G","E","T"," ","/","f","a","i","l"," ","H","T","T","P","/","1",".","1","CR","LF","CR","LF">>,
      <<"G","E","T"," ","/","j","s","o","n","-","r","e","s","p","o","n","s","e","/"," ","H","T","T","P","/","1",".","1","CR","LF","CR","LF">>,
      <<"G","E","T"," ","/","u","s","e","r","/","4","2","/","p","o","s","t","s"," ","H","T","T","P","/","1",".","1","CR","LF","CR","LF">>,
      <<"G","E","T"," ","/","q","u","e","r","y","-","p","a","r","a","m","-","h","a","n","d","l","i","n","g","/","?","q","=","4","2"," ","H","T","T","P","/","1",".","1","CR","LF","CR","LF">>,
      <<"G","E","T"," ","/","n","o","p","e"," ","H","T","T","P","/","1",".","1","CR","LF","CR","LF">> }

\* a socket: fd is "none" (no socket), "open" or "closed"; peer the bytes the
\* peer sent and inbuf those of them that are not yet read; out the bytes
\* written to the peer; wr_shut whether end-of-output was signalled
\* (shutdown(SHUT_WR))
NoSock ==
    [fd |-> "none", peer |-> <<>>, inbuf |-> <<>>, out |-> <<>>,
     wr_shut |-> FALSE]

Connected(raw) ==
    [fd |-> "open", peer |-> raw, inbuf |-> raw, out |-> <<>>,
     wr_shut |-> FALSE]

\* the locals of run's loop, and of one handle_request task.  logged holds the
\* lines print(status_code, method, path) wrote and traced the exceptions whose
\* traceback was printed while this connection was processed; tried is what
\* the try block did for it; error is the exception that ended the frame
\* ("": none); handler is the coroutine function the task awaits; reads counts the reads of the connection's socket and calls
\* the calls of a route function made for it.  A local that is dead (always
\* assigned again before it is read) is reset when it dies.
IdleFrame ==
    [pc |-> "idle", sock |-> NoSock, request |-> <<>>, parsed_req |-> Unbound,
     response |-> Unbound, logged |-> <<>>, traced |-> <<>>,
     tried |-> NotTried, error |-> "", reads |-> 0, calls |-> 0,
     handler |-> ""]

\* the object app of the program
App == "app"

\* the instances of MostMinimalWebFramework: app, and one more
Instances == {App, "other"}

\* as RouteTableOf, but each instance has a list of its own
RouteTableOf_OfInstance(self) == registered[self]

\* self.route_table, a list no instance has for itself: the attribute of the
\* class
RouteTableOf(self) == route_table

\* the last lookup: the instance it was made through, the path, the entries
\* the table held, the result, and
\* the status code of the response when the lookup was part of a dispatch
\* (0 when it was not)
NoLookup ==
    [self |-> App, path |-> <<>>, n |-> 0, raised |-> "", handler |-> "",
     answered |-> 0]

\* a call of request_parser: the lines of the request text it is given,
\* whether it was made, the exception it raised ("": none) and the Request
\* it returned
NoParse == [lines |-> <<>>, called |-> FALSE, raised |-> "", req |-> NoRequest]

Init ==
    /\ variant \in {"sequential", "concurrent"}
    /\ route_table = <<>>
    /\ server = "setup"
    /\ run = IdleFrame
    /\ tasks = [c \in Conns |-> IdleFrame]
    /\ resolved = NoLookup
    /\ parse_call = NoParse
    /\ registered = [self \in Instances |-> <<>>]

\* self.route_table.append(entry); registered keeps the entries each
\* instance was given
RouteAppend(self, entry) ==
    /\ route_table' = Append(RouteTableOf(self), entry)
    /\ registered' = [registered EXCEPT ![self] = Append(@, entry)]

\* @app.route(path) on the next handler of the application
Register ==
    /\ server = "setup"
    /\ Len(route_table) < Len(Application)
    /\ LET next == Application[Len(route_table) + 1]
       IN  RouteAppend(App, RouteEntry(next[1], next[2]))
    /\ UNCHANGED <<variant, server, run, tasks, resolved, parse_call>>

\* app.run(address, port): the application as written, or without its last
\* route, the catch-all
Run ==
    /\ server = "setup"
    /\ Len(route_table) >= Len(Application) - 1
    /\ server' = "listening"
    /\ run' = IF variant = "sequential" THEN [run EXCEPT !.pc = "accept"] ELSE run
    /\ UNCHANGED <<variant, route_table, tasks, resolved, parse_call,
                   registered>>

\* an exception leaves run's loop: finally closes the listening socket, and
\* the frame's client socket goes with the frame
Terminated(frame, exc) ==
    [frame EXCEPT !.pc = "terminated", !.error = exc, !.sock.fd = "closed",
                  !.request = <<>>, !.response = Unbound]

\* the line printed for a request
LogLine(response, parsed_req) ==
    <<response.status_code, parsed_req.method, parsed_req.path>>

\* print(response.status_code, parsed_req.method, parsed_req.path): the
\* exception evaluating the arguments raises ("": none)
PrintRaises(frame) ==
    IF frame.response[1].type \in {"NoneType", "coroutine"}
    THEN "AttributeError"
    ELSE IF frame.parsed_req = Unbound THEN "UnboundLocalError"
    ELSE ""

AfterTry(frame, o) ==
    [frame EXCEPT !.pc = "print", !.request = <<>>,
                  !.parsed_req = o.parsed_req, !.response = o.response,
                  !.tried = o.tried,
                  !.calls = IF o.tried.stage = "call" THEN @ + 1 ELSE @,
                  !.traced = IF o.traced = "" THEN @ ELSE Append(@, o.traced)]

AfterPrint(frame) ==
    [frame EXCEPT !.pc = "send",
                  !.logged = Append(@, LogLine(frame.response[1],
                                               frame.parsed_req[1]))]

\* as AfterSend, but the connection is kept and read again
AfterSend_ReadAgain(v, frame) ==
    [frame EXCEPT !.pc = "recv",
                  !.sock.out = @ \o Encode(build_response(v, frame.response[1])),
                  !.response = Unbound]

AfterSend(v, frame) ==
    [frame EXCEPT !.pc = "sent",
                  !.sock.out = @ \o Encode(build_response(v, frame.response[1])),
                  !.response = Unbound]

(* most_minimal_web_framework.py: run *)

\* clientsocket, _ = serversocket.accept(): the name is bound to the new
\* socket, and the socket it named before is released
Accept(raw) ==
    /\ variant = "sequential" /\ server = "listening" /\ run.pc = "accept"
    /\ run' = [run EXCEPT !.pc = "recv", !.sock = Connected(raw),
                          !.logged = <<>>, !.traced = <<>>,
                          !.tried = NotTried, !.reads = 0, !.calls = 0]
    /\ UNCHANGED <<variant, route_table, server, tasks, resolved, parse_call,
                   registered>>

\* request = clientsocket.recv(4096).decode(), outside the try
Recv ==
    /\ variant = "sequential" /\ run.pc = "recv"
    /\ LET data == Decode(Take(run.sock.inbuf, RecvSize))
           frame == [run EXCEPT !.sock.inbuf = Drop(@, RecvSize),
                                !.reads = @ + 1]
       IN  IF data.ok
           THEN /\ run' = [frame EXCEPT !.pc = "try", !.request = data.s]
                /\ server' = server
           ELSE /\ run' = Terminated(frame, "UnicodeDecodeError")
                /\ server' = "closed"
    /\ UNCHANGED <<variant, route_table, tasks, resolved, parse_call,
                   registered>>

\* the try statement: parse, look the handler up, call it
Try ==
    /\ variant = "sequential" /\ run.pc = "try"
    /\ \E o \in TryBlock(variant, RouteTableOf(App), run.request,
                          run.parsed_req) :
           run' = AfterTry(run, o)
    /\ UNCHANGED <<variant, route_table, server, tasks, resolved, parse_call,
                   registered>>

\* print(response.status_code, parsed_req.method, parsed_req.path)
PrintLog ==
    /\ variant = "sequential" /\ run.pc = "print"
    /\ IF PrintRaises(run) = ""
       THEN run' = AfterPrint(run) /\ server' = server
       ELSE run' = Terminated(run, PrintRaises(run)) /\ server' = "closed"
    /\ UNCHANGED <<variant, route_table, tasks, resolved, parse_call,
                   registered>>

\* clientsocket.sendall(self.build_response(response).encode())
SendAll ==
    /\ variant = "sequential" /\ run.pc = "send"
    /\ run' = AfterSend(variant, run)
    /\ UNCHANGED <<variant, route_table, server, tasks, resolved, parse_call,
                   registered>>

\* clientsocket.shutdown(SHUT_WR), the last statement of the loop body
Shutdown ==
    /\ variant = "sequential" /\ run.pc = "sent"
    /\ run' = [run EXCEPT !.pc = "accept", !.sock.wr_shut = TRUE]
    /\ UNCHANGED <<variant, route_table, server, tasks, resolved, parse_call,
                   registered>>

(* MostMinimalWebFramework.py: handle_request, one task per connection.    *)
(* The event loop runs a task from one await to the next without           *)
(* switching: the awaits are reader.read and writer.drain.                 *)

\* an exception leaves handle_request: the task ends, nothing closes the
\* writer
Failed(frame, exc) ==
    [frame EXCEPT !.pc = "failed", !.error = exc, !.request = <<>>,
                  !.response = Unbound]

\* print(...) and writer.write(self.build_response(response).encode()), up
\* to the await of writer.drain()
LogAndWrite(v, frame) ==
    IF PrintRaises(frame) = ""
    THEN AfterSend(v, AfterPrint(frame))
    ELSE Failed(frame, PrintRaises(frame))

\* start_server's callback: a connection arrives and its task is created,
\* suspended in reader.read
AcceptTask(c, raw) ==
    /\ variant = "concurrent" /\ server = "listening"
    /\ tasks[c].pc = "idle"
    /\ \A d \in Conns : d < c => tasks[d].pc # "idle"
    /\ tasks' = [tasks EXCEPT ![c] = [IdleFrame EXCEPT !.pc = "read",
                                                       !.sock = Connected(raw)]]
    /\ UNCHANGED <<variant, route_table, server, run, resolved, parse_call,
                   registered>>

\* the task is suspended in await handler(parsed_req)
Suspended(frame, o) ==
    [frame EXCEPT !.pc = "await", !.request = <<>>,
                  !.parsed_req = o.parsed_req, !.tried = o.tried,
                  !.handler = o.handler]

\* the task resumes from reader.read(40960) and runs to the next await:
\* decode (outside the try) and the try statement, then either the await
\* of a coroutine handler, or print, writer.write and writer.drain()
handle_request(c) ==
    /\ variant = "concurrent" /\ tasks[c].pc = "read"
    /\ LET data == Decode(Take(tasks[c].sock.inbuf, ReadSize))
           frame == [tasks[c] EXCEPT !.sock.inbuf = Drop(@, ReadSize),
                                     !.reads = @ + 1]
       IN  IF data.ok
           THEN \E o \in TryBlock(variant, RouteTableOf(App), data.s,
                                  frame.parsed_req) :
                    tasks' = [tasks EXCEPT
                                 ![c] = IF o.tried.stage = "await"
                                        THEN Suspended(frame, o)
                                        ELSE LogAndWrite(variant,
                                                         AfterTry(frame, o))]
           ELSE tasks' = [tasks EXCEPT ![c] = Failed(frame, "UnicodeDecodeError")]
    /\ UNCHANGED <<variant, route_table, server, run, resolved, parse_call,
                   registered>>

\* as AwaitedRequest, but parsed_req is kept on the instance the tasks
\* share: the awaiting task of the latest connection has overwritten it
AwaitedRequest_LastParsed(c) ==
    LET waiting == {d \in Conns : tasks[d].pc = "await"}
    IN  tasks[CHOOSE d \in waiting : \A e \in waiting : d >= e].parsed_req[1]

\* the request the awaited coroutine of task c was called with: the task's
\* own parsed_req
AwaitedRequest(c) == tasks[c].parsed_req[1]

\* the awaited handler completes and the task runs on to writer.drain():
\* the rest of the try statement, print, writer.write
Resume(c) ==
    /\ variant = "concurrent" /\ tasks[c].pc = "await"
    /\ \E o \in Called(variant, tasks[c].handler, AwaitedRequest(c),
                        {"ApiException"}) :
           tasks' = [tasks EXCEPT
                        ![c] = LogAndWrite(variant,
                                   AfterTry([@ EXCEPT !.handler = ""], o))]
    /\ UNCHANGED <<variant, route_table, server, run, resolved, parse_call,
                   registered>>

\* the task resumes from writer.drain(): writer.close(), and handle_request
\* returns: of the finished task the closed socket alone is kept, with what
\* was written to it
Close(c) ==
    /\ variant = "concurrent" /\ tasks[c].pc = "sent"
    /\ tasks' = [tasks EXCEPT ![c] = [IdleFrame EXCEPT
                     !.pc = "done",
                     !.sock = [tasks[c].sock EXCEPT !.fd = "closed",
                                                    !.peer = <<>>]]]
    /\ UNCHANGED <<variant, route_table, server, run, resolved, parse_call,
                   registered>>

Next ==
    \/ Register
    \/ Run
    \/ \E raw \in RawRequests : Accept(raw)
    \/ Recv
    \/ Try
    \/ PrintLog
    \/ SendAll
    \/ Shutdown
    \/ \E c \in Conns, raw \in RawRequests : AcceptTask(c, raw)
    \/ \E c \in Conns : handle_request(c)
    \/ \E c \in Conns : Close(c)

Spec == Init /\ [][Next]_vars

----------------------------------------------------------------------------
(* the tasks of the concurrent driver with a coroutine handler             *)

\* the routes of an application one of whose handlers is a coroutine
\* function
TaskRoutes ==
    << <<<<"/","w","a","i","t","/",".","*">>, "awaited_handler">>,
       <<<<"/","r","a","i","s","e","-","e","x","c","e","p","t","i","o","n","/">>, "exception_raising">>,
       <<<<"/",".","*">>, "func_404">> >>

TaskRequests ==
    { <<"G","E","T"," ","/","w","a","i","t","/","a"," ","H","T","T","P","/","1",".","1","CR","LF","CR","LF">>,
      <<"G","E","T"," ","/","w","a","i","t","/","b"," ","H","T","T","P","/","1",".","1","CR","LF","CR","LF">>,
      <<"G","E","T"," ","/","r","a","i","s","e","-","e","x","c","e","p","t","i","o","n","/"," ","H","T","T","P","/","1",".","1","CR","LF","CR","LF">>,
      <<"G","E","T"," ","/","n","o","p","e"," ","H","T","T","P","/","1",".","1","CR","LF","CR","LF">> }

\* the application has registered its routes and app.run is serving
InitTasks ==
    /\ variant = "concurrent"
    /\ route_table = [i \in 1..Len(TaskRoutes) |->
                         RouteEntry(TaskRoutes[i][1], TaskRoutes[i][2])]
    /\ server = "listening"
    /\ run = IdleFrame
    /\ tasks = [c \in Conns |-> IdleFrame]
    /\ resolved = NoLookup
    /\ parse_call = NoParse
    /\ registered = [self \in Instances |->
                         IF self = App THEN route_table ELSE <<>>]

NextTasks ==
    \/ \E c \in Conns, raw \in TaskRequests : AcceptTask(c, raw)
    \/ \E c \in Conns : handle_request(c)
    \/ \E c \in Conns : Resume(c)
    \/ \E c \in Conns : Close(c)

SpecTasks == InitTasks /\ [][NextTasks]_vars

----------------------------------------------------------------------------
(* the route table under any registrations                                 *)

\* the entries the table may hold
MaxRoutes == 2

RoutePaths == { <<"/">>, <<"/","f","o","o">>, <<"/","u","s","e","r","/","[","^","/","]","*","/","p","o","s","t","s">>, <<"/",".","*">> }

RouteFuncs == {"failing_handler", "status_code", "func_404"}

SearchedPaths ==
    { <<"/">>, <<"/","f","o","o">>, <<"/","f","o","o","/","b","a","r">>, <<"/","u","s","e","r","/","4","2","/","p","o","s","t","s">>, <<"/","u","s","e","r","/","4","/","2","/","p","o","s","t","s">>,
      <<"/","f","o","o","LF">> }

\* as Route, but the entry is put in front of the table
Route_AtFront(self, path, func) ==
    /\ server = "setup"
    /\ Len(route_table) < MaxRoutes
    /\ route_table' = <<RouteEntry(path, func)>> \o route_table
    /\ registered' = [registered EXCEPT
                         ![self] = Append(@, RouteEntry(path, func))]
    /\ UNCHANGED <<variant, server, run, tasks, resolved, parse_call>>

DispatchedPaths == { <<"/","f","o","o">>, <<"/","u","s","e","r","/","4","2","/","p","o","s","t","s">> }

\* @self.route(path) on func
Route(self, path, func) ==
    /\ server = "setup"
    /\ Len(route_table) < MaxRoutes
    /\ RouteAppend(self, RouteEntry(path, func))
    /\ UNCHANGED <<variant, server, run, tasks, resolved, parse_call>>

\* self.get_route_function(searched_path)
Resolve(self, searched_path) ==
    /\ LET r == get_route_function(RouteTableOf(self), searched_path)
       IN  resolved' = [self |-> self, path |-> searched_path,
                        n |-> Len(RouteTableOf(self)),
                        raised |-> r.raised, handler |-> r.handler,
                        answered |-> 0]
    /\ UNCHANGED <<variant, route_table, server, run, tasks, parse_call,
                   registered>>

\* a request for searched_path, parsed
Get(searched_path) ==
    [raised |-> "",
     req |-> Request(<<"G","E","T">>, <<>>, searched_path, <<>>, JStr(<<>>))]

\* the try statement on a parsed request for searched_path: the lookup, the
\* handler's call and the except clauses
Dispatch(self, searched_path) ==
    /\ \E o \in TryParsed(variant, RouteTableOf(self), Get(searched_path),
                           Unbound, {"ApiException"}) :
           LET r == get_route_function(RouteTableOf(self), searched_path)
           IN  resolved' = [self |-> self, path |-> searched_path,
                            n |-> Len(RouteTableOf(self)),
                            raised |-> r.raised, handler |-> r.handler,
                            answered |-> o.response[1].status_code]
    /\ UNCHANGED <<variant, route_table, server, run, tasks, parse_call,
                   registered>>

NextRoutes ==
    \/ \E path \in RoutePaths, func \in RouteFuncs : Route(App, path, func)
    \/ \E searched_path \in SearchedPaths : Resolve(App, searched_path)
    \/ \E searched_path \in DispatchedPaths : Dispatch(App, searched_path)

SpecRoutes == Init /\ [][NextRoutes]_vars

----------------------------------------------------------------------------
(* the route table under registrations and lookups through two instances   *)

InstanceRoutes ==
    { <<<<"/","f","o","o">>, "status_code">>, <<<<"/","f","o","o">>, "func_404">>,
      <<<<"/",".","*">>, "func_404">>, <<<<"/",".","*">>, "failing_handler">> }

InstancePaths == { <<"/","f","o","o">>, <<"/","b","a","r">> }

NextInstances ==
    \/ \E self \in Instances, r \in InstanceRoutes : Route(self, r[1], r[2])
    \/ \E self \in Instances, searched_path \in InstancePaths :
           Resolve(self, searched_path)
    \/ \E self \in Instances, searched_path \in InstancePaths :
           Dispatch(self, searched_path)

SpecInstances == Init /\ [][NextInstances]_vars


----------------------------------------------------------------------------
(* request_parser on request texts made of a request line, header lines,   *)
(* and an empty line followed by body lines                                *)

MaxHeaderLines == 2

MaxBodyLines == 2

RequestLines ==
    { <<"G","E","T"," ","/"," ","H","T","T","P","/","1",".","1">>,
      <<"G","E","T"," ","/","q","u","e","r","y","-","p","a","r","a","m","-","h","a","n","d","l","i","n","g","/","?","q","=","4","2"," ","H","T","T","P","/","1",".","1">>,
      <<"G","E","T"," ","/","q","u","e","r","y","-","p","a","r","a","m","-","h","a","n","d","l","i","n","g","/","?","q","=","4","2","&","a","=","1","&","q","=","7"," ","H","T","T","P","/","1",".","1">>,
      <<"G","E","T"," ","/","q","u","e","r","y","-","p","a","r","a","m","-","h","a","n","d","l","i","n","g","/","?","a","=","&","q","=","4","2"," ","H","T","T","P","/","1",".","1">>,
      <<"P","O","S","T"," ","/","b","o","d","y","-","h","a","n","d","l","e","/","?","x","=","1","#","f","r","a","g"," ","H","T","T","P","/","1",".","1">> }

HeaderLines ==
    { <<"X","-","T","o","k","e","n",":"," ","a","b","c","1","2","3">>, <<"X","-","T","o","k","e","n",":","a","b","c","1","2","3">>, <<"x","-","t","o","k","e","n",":"," ","z","z","z">>,
      <<"H","o","s","t",":"," ","a",":","b">>, <<"n","o","c","o","l","o","n">> }

BodyLines == { <<"{">>, <<"\"","a",":"," ","b","\"",":"," ","1","}">>, <<"a",":"," ","b">> }

\* the sequences of at most n elements of S
SeqsUpTo(S, n) == UNION {[1..k -> S] : k \in 0..n}

\* what follows the header lines: nothing, or an empty line and body lines
Tails == {<<>>} \cup {<< <<>> >> \o b : b \in SeqsUpTo(BodyLines, MaxBodyLines)}

RECURSIVE JoinLines(_)
\* "\r\n".join(lines)
JoinLines(lines) ==
    IF Len(lines) = 0 THEN <<>>
    ELSE IF Len(lines) = 1 THEN lines[1]
    ELSE lines[1] \o CRLF \o JoinLines(Tail(lines))

\* self.request_parser(request_str), on the request text of parse_call
Parse ==
    /\ ~parse_call.called
    /\ LET r == request_parser(JoinLines(parse_call.lines))
       IN  parse_call' = [parse_call EXCEPT !.called = TRUE,
                                           !.raised = r.raised, !.req = r.req]
    /\ UNCHANGED <<variant, route_table, server, run, tasks, resolved,
                   registered>>

NextParse == Parse

\* one call on any request: the parser keeps no state from one call to the
\* next, and it is the same function in both files
InitParse ==
    /\ variant = "sequential"
    /\ route_table = <<>>
    /\ server = "setup"
    /\ run = IdleFrame
    /\ tasks = [c \in Conns |-> IdleFrame]
    /\ resolved = NoLookup
    /\ registered = [self \in Instances |-> <<>>]
    /\ parse_call \in {[NoParse EXCEPT !.lines = <<first>> \o h \o tail] :
                           first \in RequestLines,
                           h \in SeqsUpTo(HeaderLines, MaxHeaderLines),
                           tail \in Tails}

SpecParse == InitParse /\ [][NextParse]_vars
----------------------------------------------------------------------------
(* what a client reads from the bytes written to its socket                *)

Frames == {run} \cup {tasks[c] : c \in Conns}

\* the status line: the bytes before the first CRLF
StatusLine(out) == PySliceTo(out, PyFind(out, CRLF))

\* the bytes after the blank line
WireBody(out) == Drop(out, PyFind(out, CRLF \o CRLF) + 4)

\* the value of the header field name: the bytes between "name: " and CRLF
WireHeader(out, name) ==
    LET key == CRLF \o name \o <<":"," ">>
        rest == Drop(out, PyFind(out, key) + Len(key))
    IN  PySliceTo(rest, PyFind(rest, CRLF))

\* a status line, header fields, a blank line
IsHttpResponse(out) ==
    /\ StartsWith(out, <<"H","T","T","P","/","1",".","1"," ">>)
    /\ PyFind(out, CRLF \o CRLF) >= 0

\* the frame's connection has been processed to its end
Ended(frame) ==
    \/ frame.pc \in {"terminated", "failed", "done"}
    \/ frame.pc = "accept" /\ frame.sock.fd # "none"

----------------------------------------------------------------------------
(* the claims                                                              *)

\* C1: every accepted connection, whatever bytes the client sent, has a
\* well-formed HTTP response written to it before its processing ends, and
\* when the request could not be parsed that response is a 500.
C1_EveryConnectionAnswered ==
    \A frame \in Frames :
        Ended(frame) =>
            /\ IsHttpResponse(frame.sock.out)
            /\ frame.tried.stage = "parse"
                   => StatusLine(frame.sock.out) = <<"H","T","T","P","/","1",".","1"," ","5","0","0">>

\* C2: no failure while processing a connection terminates the driver: the
\* listening socket stays open and the accept loop goes on.
C2_DriverKeepsRunning == server # "closed" /\ run.pc # "terminated"

\* C3: whatever the handler did (returned, raised ApiException, raised
\* another failure, fell through without a Response), the value the driver
\* logs and serializes is a Response with status code, body and content type.
C3_OneResponsePerRequest ==
    \A frame \in Frames :
        frame.pc \in {"print", "send"} =>
            /\ frame.response # Unbound
            /\ frame.response[1].type \in {"Response", "ApiException"}

\* C4: when the handler raises a failure other than ApiException, the
\* response sent is the fixed fault response: status 500, body
\* {"msg": "500 - server error"}, content type application/json.
C4_FaultResponseIsJson ==
    \A frame \in Frames :
        ( /\ frame.tried.stage = "call"
          /\ frame.tried.raised \notin {"", "ApiException"}
          /\ frame.sock.out # <<>> ) =>
            /\ StatusLine(frame.sock.out) = <<"H","T","T","P","/","1",".","1"," ","5","0","0">>
            /\ WireBody(frame.sock.out) = <<"{","\"","m","s","g","\"",":"," ","\"","5","0","0"," ","-"," ","s","e","r","v","e","r"," ","e","r","r","o","r","\"","}">>
            /\ WireHeader(frame.sock.out, <<"C","o","n","t","e","n","t","-","T","y","p","e">>)
                   = <<"a","p","p","l","i","c","a","t","i","o","n","/","j","s","o","n",";"," ","c","h","a","r","s","e","t","=","u","t","f","-","8">>

\* C5: when the handler raises an ApiException, the response sent has the
\* status code and the body the handler put in the exception: the status
\* line is HTTP/1.1 <status_code> and the body is the body's JSON text.
C5_ApiExceptionSentAsRaised ==
    \A frame \in Frames :
        (frame.tried.raised = "ApiException" /\ frame.sock.out # <<>>) =>
            /\ StatusLine(frame.sock.out)
                   = <<"H","T","T","P","/","1",".","1"," ">> \o IntToStr(frame.tried.value.status_code)
            /\ WireBody(frame.sock.out)
                   = Encode(json_dumps(frame.tried.value.body))

\* a handler raised ApiException({"msg": "name field required"}, 400) and
\* the client was sent HTTP/1.1 400 with that JSON text
C5_Witness ==
    \E frame \in Frames :
        /\ frame.tried.raised = "ApiException"
        /\ frame.tried.value.status_code = 400
        /\ StatusLine(frame.sock.out) = <<"H","T","T","P","/","1",".","1"," ","4","0","0">>
        /\ WireBody(frame.sock.out) = <<"{","\"","m","s","g","\"",":"," ","\"","n","a","m","e"," ","f","i","e","l","d"," ","r","e","q","u","i","r","e","d","\"","}">>

NoEntryMatches(path) ==
    \A i \in 1..Len(route_table) : ~ReMatch(route_table[i][1], path)

\* C6: when no entry of the route table matches the request's path, the
\* failed lookup is handled like any dispatch failure: the response is the
\* 500 fault response and the frame is not ended by an exception.
C6_NoRouteGivesFault ==
    \A frame \in Frames :
        ( /\ frame.tried.stage \in {"lookup", "call"}
          /\ frame.parsed_req # Unbound
          /\ NoEntryMatches(frame.parsed_req[1].path) ) =>
            /\ frame.error = ""
            /\ frame.response # Unbound => frame.response[1] = FaultResponse
            /\ frame.sock.out # <<>>
                   => StatusLine(frame.sock.out) = <<"H","T","T","P","/","1",".","1"," ","5","0","0">>

\* a request for a path no entry matches was answered with a 500 and the
\* accept loop is back at accept, the listening socket open
C6_Witness ==
    /\ server = "listening" /\ run.pc = "accept"
    /\ run.tried.stage = "lookup"
    /\ NoEntryMatches(run.parsed_req[1].path)
    /\ StatusLine(run.sock.out) = <<"H","T","T","P","/","1",".","1"," ","5","0","0">>

\* C7: a lookup returns the handler of the entry with the smallest
\* registration index whose pattern matches the path, also when several
\* entries match, and raises only when none of the entries matches.
C7_FirstMatchWins ==
    LET hit(i) == ReMatch(route_table[i][1], resolved.path)
    IN  IF resolved.raised = ""
        THEN resolved.n > 0 =>
                 \E i \in 1..resolved.n :
                     /\ hit(i)
                     /\ \A k \in 1..(i - 1) : ~hit(k)
                     /\ resolved.handler = route_table[i][2]
        ELSE \A i \in 1..resolved.n : ~hit(i)

\* two entries with different handlers match the path, and the lookup gave
\* the handler of the earlier one
C7_Witness ==
    \E i, k \in 1..resolved.n :
        /\ i < k
        /\ ReMatch(route_table[i][1], resolved.path)
        /\ ReMatch(route_table[k][1], resolved.path)
        /\ route_table[i][2] # route_table[k][2]
        /\ resolved.handler = route_table[i][2]

\* C8: in both drivers the Content-Length header of every response written
\* equals the number of bytes of the body that follows the blank line.
C8_ContentLengthIsByteLength ==
    \A frame \in Frames :
        frame.sock.out # <<>> =>
            StrToInt(WireHeader(frame.sock.out, <<"C","o","n","t","e","n","t","-","L","e","n","g","t","h">>))
                = Len(WireBody(frame.sock.out))

\* C9: for every request the try block ran for, also one that failed to
\* parse, exactly one line is logged, with the response's status code and
\* this request's method and path, before any byte is written.
C9_OneLogLinePerRequest ==
    \A frame \in Frames :
        /\ (frame.tried.stage # "none" /\ (Ended(frame) \/ frame.sock.out # <<>>)
               /\ frame.pc # "done")
               => Len(frame.logged) = 1
        /\ \A i \in 1..Len(frame.logged) :
               /\ frame.parsed_req # Unbound
               /\ frame.tried.stage # "parse"
               /\ frame.logged[i][2] = frame.parsed_req[1].method
               /\ frame.logged[i][3] = frame.parsed_req[1].path

\* C10: once the response is written the driver signals end-of-output on
\* the client socket and then closes it, as part of processing that
\* connection.
C10_HalfCloseThenClose ==
    \A frame \in Frames :
        (frame.pc \in {"accept", "done"} /\ frame.sock.fd # "none") =>
            frame.sock.wr_shut /\ frame.sock.fd = "closed"


\* the pattern holds no wildcard: literal characters and the final "$"
IsLiteral(atoms) ==
    \A i \in 1..Len(atoms) :
        IF i = Len(atoms) THEN atoms[i].kind = "end"
        ELSE atoms[i].kind = "lit" /\ ~atoms[i].star

\* the path a pattern without wildcard was registered with
LiteralText(atoms) == [i \in 1..(Len(atoms) - 1) |-> atoms[i].c]

\* C11: a pattern matches a path only as a whole, from the first character
\* of the path to its last: when no registered pattern holds a wildcard, a
\* lookup finds a handler only for a path that is equal to a registered one.
C11_WholePathMatch ==
    ( /\ resolved.raised = "" /\ resolved.n > 0
      /\ \A i \in 1..resolved.n : IsLiteral(route_table[i][1]) ) =>
        \E i \in 1..resolved.n :
            resolved.path = LiteralText(route_table[i][1])

\* the index of the first empty line among the lines given to the parser
\* (Len + 1 when there is none)
FirstEmpty(lines) ==
    LET e == {i \in 2..Len(lines) : lines[i] = <<>>}
    IN  IF e = {} THEN Len(lines) + 1 ELSE CHOOSE i \in e : \A k \in e : i <= k

\* the position of the first colon of a line (0 when it holds none)
Colon(line) ==
    LET c == {p \in 1..Len(line) : line[p] = ":"}
    IN  IF c = {} THEN 0 ELSE CHOOSE p \in c : \A q \in c : p <= q

\* the key of a header line that holds a colon: the text before the first
\* colon, upper-cased
KeyOf(line) == Upper(SubSeq(line, 1, Colon(line) - 1))

\* C12: each header line before the first empty line gives an entry whose
\* key is the text before the first colon, upper-cased; the value kept for
\* a key is the text from two characters after the colon of the last line
\* with that key.
C12_HeadersByLastLine ==
    (parse_call.called /\ parse_call.raised = "") =>
        LET lines == parse_call.lines
            hdr == {i \in 2..(FirstEmpty(lines) - 1) : Colon(lines[i]) > 0}
        IN  \A i \in hdr :
                LET same == {k \in hdr : KeyOf(lines[k]) = KeyOf(lines[i])}
                    last == CHOOSE k \in same : \A m \in same : k >= m
                IN  /\ DictHas(parse_call.req.headers, KeyOf(lines[i]))
                    /\ DictGet(parse_call.req.headers, KeyOf(lines[i]))
                           = SubSeq(lines[last], Colon(lines[last]) + 2,
                                    Len(lines[last]))

\* "x-token: zzz" and then "X-Token:abc123" were parsed: the one entry
\* X-TOKEN holds the value of the later line, without its first character
C12_Witness ==
    /\ parse_call.raised = "" /\ Len(parse_call.lines) >= 4
    /\ parse_call.lines[2] = <<"x","-","t","o","k","e","n",":"," ","z","z","z">>
    /\ parse_call.lines[3] = <<"X","-","T","o","k","e","n",":","a","b","c","1","2","3">>
    /\ parse_call.req.headers = << <<<<"X","-","T","O","K","E","N">>, <<"b","c","1","2","3">>>> >>

\* how far a frame's connection has come: 1 accepted, 2 read, 3 parsed and
\* dispatched (the try statement is over), 4 logged, 5 written, 6 closed or
\* given up by the driver, 7 ended by an exception; 0 with no connection
Phase(frame) ==
    CASE frame.pc = "idle" -> 0
      [] frame.pc = "accept" -> IF frame.sock.fd = "none" THEN 0 ELSE 6
      [] frame.pc \in {"recv", "read"} -> 1
      [] frame.pc \in {"try", "await"} -> 2
      [] frame.pc = "print" -> 3
      [] frame.pc = "send" -> 4
      [] frame.pc = "sent" -> 5
      [] frame.pc = "done" -> 6
      [] frame.pc \in {"terminated", "failed"} -> 7

\* a frame takes a new connection: nothing read, called or written for it
NewConnection(before, after) ==
    /\ Phase(before) \in {0, 6}
    /\ Phase(after) = 1
    /\ after.reads = 0 /\ after.calls = 0 /\ after.sock.out = <<>>

PhasesOfConnection(frame) ==
    /\ frame.reads <= 1
    /\ frame.calls <= 1
    /\ Phase(frame) = 1 => frame.reads = 0
    /\ (Phase(frame) >= 2 /\ frame.pc # "done") => frame.reads = 1
    /\ Len(frame.request) <= (IF variant = "sequential" THEN RecvSize ELSE ReadSize)
    /\ frame.calls = 1 => frame.tried.stage = "call"
    /\ Phase(frame) < 3 => frame.calls = 0
    /\ Phase(frame) < 5 => frame.sock.out = <<>>
    /\ (frame.sock.out # <<>> /\ frame.pc # "done") => frame.tried.stage # "none"

\* a step leaves the connection where it is, moves it on, or replaces it
PhaseStep(before, after) ==
    \/ Phase(after) > Phase(before)
    \/ NewConnection(before, after)
    \/ Phase(after) = Phase(before) /\ (Phase(after) = 0 \/ after = before)

\* C13: a connection goes through accepted, read, parsed and dispatched,
\* written, closed in this order, each at most once and never backwards: one
\* read of at most one buffer, at most one call of a route function, and
\* nothing written to the socket before the try statement is over
C13_PhasesInOrder ==
    /\ [](\A frame \in Frames : PhasesOfConnection(frame))
    /\ [][ /\ PhaseStep(run, run')
           /\ \A c \in Conns : PhaseStep(tasks[c], tasks'[c]) ]_vars

C13_Witness ==
    \E frame \in Frames :
        /\ frame.pc = "sent"
        /\ frame.reads = 1 /\ frame.calls = 1
        /\ frame.tried.stage = "call"
        /\ frame.sock.out # <<>>

\* what the try statement comes to on the bytes the peer of sock sent, the
\* awaited handler having completed
OwnOutcomes(sock) ==
    UNION { IF o.tried.stage = "await"
            THEN Called(variant, o.handler, o.parsed_req[1], {"ApiException"})
            ELSE {o}
            : o \in TryBlock(variant, route_table,
                             Decode(Take(sock.peer, ReadSize)).s, Unbound) }

\* C14: in the concurrent driver, however the tasks interleave at their
\* awaits, what is written to a connection is the response computed from the
\* request that connection sent, a task holds the request and the response
\* or ApiException of its own connection, and a task's step changes no other
\* task's frame and not the route table
C14_TasksKeepTheirOwn ==
    /\ [](\A c \in Conns :
              /\ tasks[c].pc = "sent" =>
                     \E o \in OwnOutcomes(tasks[c].sock) :
                         /\ tasks[c].sock.out
                                = Encode(build_response(variant, o.response[1]))
                         /\ tasks[c].parsed_req = o.parsed_req
                         /\ tasks[c].tried = o.tried
              /\ tasks[c].pc \notin {"sent", "done"} => tasks[c].sock.out = <<>>
              /\ tasks[c].pc = "await" =>
                     \E o \in TryBlock(variant, route_table,
                                       Decode(Take(tasks[c].sock.peer, ReadSize)).s,
                                       Unbound) :
                         tasks[c].parsed_req = o.parsed_req)
    /\ [][ /\ route_table' = route_table
           /\ \A c \in Conns :
                  tasks[c].pc = "sent" => tasks'[c].sock.out = tasks[c].sock.out
           /\ \A c, d \in Conns :
                  c # d => tasks'[c] = tasks[c] \/ tasks'[d] = tasks[d] ]_vars

C14_Witness ==
    /\ tasks[1].pc = "sent"
    /\ tasks[1].parsed_req[1].path = <<"/","w","a","i","t","/","a">>
    /\ tasks[1].calls = 1
    /\ IsHttpResponse(tasks[1].sock.out)
    /\ tasks[2].pc = "await"
    /\ tasks[2].parsed_req[1].path = <<"/","w","a","i","t","/","b">>

\* the request-target of a request: the second word of its first line
Target(lines) == PySplit(lines[1], <<" ">>)[2]

\* the request-target without its fragment
NoFragment(target) == SplitOnce(target, <<"#">>)[1]

\* the part of a request-target before the "?", and the part after it
PathOf(target) == SplitOnce(NoFragment(target), <<"?">>)[1]

QueryOf(target) ==
    LET pq == SplitOnce(NoFragment(target), <<"?">>)
    IN  IF Len(pq) = 2 THEN pq[2] ELSE <<>>

\* the lines of a request without headers whose first line is that of
\* lines with the query of the request-target replaced
WithQuery(lines, query) ==
    LET words == PySplit(lines[1], <<" ">>)
    IN  << words[1] \o <<" ">> \o PathOf(words[2]) \o <<"?">> \o query
               \o <<" ">> \o words[3],
           <<>> >>

OtherQueries == { <<>>, <<"n","e","x","t","=","/","&","q","=","1">> }

\* the values the fields name=value of a query supply for name, in order
RECURSIVE ValuesOf(_, _)
ValuesOf(fields, name) ==
    IF fields = <<>> THEN <<>>
    ELSE LET nv == SplitOnce(Head(fields), <<"=">>)
         IN  (IF Len(nv) = 2 /\ nv[1] = name THEN <<nv[2]>> ELSE <<>>)
             \o ValuesOf(Tail(fields), name)

\* the example application's table
ExampleTable ==
    [i \in 1..Len(Application) |->
        RouteEntry(Application[i][1], Application[i][2])]

\* C15: routing depends on the path only: a request whose target differs
\* only in the query string has the same parsed path and gets the same
\* handler; the parsed path holds no part of the query string; query_params
\* maps each parameter name to the list of all the values supplied for it,
\* in order
C15_RoutingByPathOnly ==
    (parse_call.called /\ parse_call.raised = "") =>
        LET target == Target(parse_call.lines)
            req == parse_call.req
            fields == PySplit(QueryOf(target), <<"&">>)
            named == {i \in 1..Len(fields) : PyFind(fields[i], <<"=">>) >= 0}
        IN  /\ req.path = PathOf(target)
            /\ PyFind(req.path, <<"?">>) < 0
            /\ \A query \in OtherQueries :
                   LET other == request_parser(
                                    JoinLines(WithQuery(parse_call.lines, query)))
                   IN  /\ other.raised = ""
                       /\ other.req.path = req.path
                       /\ get_route_function(ExampleTable, other.req.path)
                              = get_route_function(ExampleTable, req.path)
            /\ \A i \in named :
                   LET name == SplitOnce(fields[i], <<"=">>)[1]
                   IN  /\ DictHas(req.query_params, name)
                       /\ DictGet(req.query_params, name) = ValuesOf(fields, name)

\* the values of a query's fields name=value that are not empty, in order
RECURSIVE NonBlankValuesOf(_, _)
NonBlankValuesOf(fields, name) ==
    IF fields = <<>> THEN <<>>
    ELSE LET nv == SplitOnce(Head(fields), <<"=">>)
         IN  (IF Len(nv) = 2 /\ nv[1] = name /\ nv[2] # <<>>
              THEN <<nv[2]>> ELSE <<>>)
             \o NonBlankValuesOf(Tail(fields), name)

\* C15, amended: routing depends on the path only, and the parsed path holds
\* no part of the query string, as stated; query_params maps each parameter
\* name supplied with a value that is not empty to the list of its values
\* that are not empty, in order, and holds no other name
C15_RoutingByPathOnlyNonBlank ==
    (parse_call.called /\ parse_call.raised = "") =>
        LET target == Target(parse_call.lines)
            req == parse_call.req
            fields == PySplit(QueryOf(target), <<"&">>)
            names == {SplitOnce(fields[i], <<"=">>)[1] : i \in 1..Len(fields)}
        IN  /\ req.path = PathOf(target)
            /\ PyFind(req.path, <<"?">>) < 0
            /\ \A query \in OtherQueries :
                   LET other == request_parser(
                                    JoinLines(WithQuery(parse_call.lines, query)))
                   IN  /\ other.raised = ""
                       /\ other.req.path = req.path
                       /\ get_route_function(ExampleTable, other.req.path)
                              = get_route_function(ExampleTable, req.path)
            /\ \A name \in names :
                   IF NonBlankValuesOf(fields, name) = <<>>
                   THEN ~DictHas(req.query_params, name)
                   ELSE /\ DictHas(req.query_params, name)
                        /\ DictGet(req.query_params, name)
                               = NonBlankValuesOf(fields, name)
            /\ \A k \in 1..Len(req.query_params) :
                   req.query_params[k][1] \in names

C15_Witness ==
    /\ parse_call.called /\ parse_call.raised = ""
    /\ Len(parse_call.lines) >= 1
    /\ parse_call.lines[1] = <<"G","E","T"," ","/","q","u","e","r","y","-","p","a","r","a","m","-","h","a","n","d","l","i","n","g","/","?","a","=","&","q","=","4","2"," ","H","T","T","P","/","1",".","1">>
    /\ parse_call.req.path = <<"/","q","u","e","r","y","-","p","a","r","a","m","-","h","a","n","d","l","i","n","g","/">>
    /\ parse_call.req.query_params = << <<<<"q">>, << <<"4","2">> >> >> >>

\* the lines one after the other, nothing between them
RECURSIVE Concatenated(_)
Concatenated(lines) ==
    IF lines = <<>> THEN <<>> ELSE Head(lines) \o Concatenated(Tail(lines))

\* the key a header line gives (of a line without a colon, all but its last
\* character)
HeaderKey(line) ==
    IF Colon(line) > 0 THEN KeyOf(line)
    ELSE Upper(SubSeq(line, 1, Len(line) - 1))

\* C16: the headers come from the lines before the first empty line only: no
\* line after it gives a header, colon or not; the body is the JSON value of
\* the concatenation of the lines after it when that decodes, and that text
\* itself when it does not, the empty string when no line follows
C16_BodyAfterFirstEmptyLine ==
    (parse_call.called /\ parse_call.raised = "") =>
        LET lines == parse_call.lines
            e == FirstEmpty(lines)
            text == Concatenated(SubSeq(lines, e + 1, Len(lines)))
            req == parse_call.req
        IN  /\ e <= Len(lines)
            /\ Len(req.headers) <= e - 2
            /\ \A k \in 1..Len(req.headers) :
                   \E i \in 2..(e - 1) : req.headers[k][1] = HeaderKey(lines[i])
            /\ \A i \in 2..(e - 1) : DictHas(req.headers, HeaderKey(lines[i]))
            /\ req.body = IF json_loads(text).ok THEN json_loads(text).v
                          ELSE JStr(text)
            /\ e = Len(lines) => req.body = JStr(<<>>)
            /\ text = <<"{","\"","a",":"," ","b","\"",":"," ","1","}">> =>
                   req.body = JObj(<< <<<<"a",":"," ","b">>, JInt(1)>> >>)
            /\ text = <<"a",":"," ","b","{">> => req.body = JStr(<<"a",":"," ","b","{">>)

C16_Witness ==
    /\ parse_call.called /\ parse_call.raised = ""
    /\ parse_call.lines = << <<"P","O","S","T"," ","/","b","o","d","y","-","h","a","n","d","l","e","/","?","x","=","1","#","f","r","a","g"," ","H","T","T","P","/","1",".","1">>,
                             <<"H","o","s","t",":"," ","a",":","b">>, <<>>, <<"{">>, <<"\"","a",":"," ","b","\"",":"," ","1","}">> >>
    /\ parse_call.req.headers = << <<<<"H","O","S","T">>, <<"a",":","b">>>> >>
    /\ parse_call.req.body = JObj(<< <<<<"a",":"," ","b">>, JInt(1)>> >>)

\* C17: the route table only grows at its end: a step leaves it as it is or
\* adds one entry after the entries it held, whatever the step is (a
\* registration, a lookup, a dispatch, a handler that fails); so a path that
\* resolved to a handler resolves to that handler whatever was registered
\* since
C17_AppendOnly ==
    /\ []((resolved.raised = "" /\ resolved.n > 0) =>
              get_route_function(route_table, resolved.path)
                  = [raised |-> "", handler |-> resolved.handler])
    /\ [][ \/ route_table' = route_table
           \/ /\ Len(route_table') = Len(route_table) + 1
              /\ SubSeq(route_table', 1, Len(route_table)) = route_table ]_vars

\* a path resolved to a handler that failed, and an entry registered since
\* matches the path too, with another handler
C17_Witness ==
    /\ resolved.raised = "" /\ resolved.n > 0
    /\ resolved.handler = "failing_handler" /\ resolved.answered = 500
    /\ \E k \in (resolved.n + 1)..Len(route_table) :
           /\ ReMatch(route_table[k][1], resolved.path)
           /\ route_table[k][2] # resolved.handler

\* the entries of part occur in whole in this order
RECURSIVE IsSubsequence(_, _)
IsSubsequence(part, whole) ==
    IF part = <<>> THEN TRUE
    ELSE IF whole = <<>> THEN FALSE
    ELSE IF Head(part) = Head(whole)
    THEN IsSubsequence(Tail(part), Tail(whole))
    ELSE IsSubsequence(part, Tail(whole))

\* the entries given to the instances, counted
RECURSIVE RegisteredThrough(_)
RegisteredThrough(S) ==
    IF S = {} THEN 0
    ELSE LET self == CHOOSE x \in S : TRUE
         IN  Len(registered[self]) + RegisteredThrough(S \ {self})

\* C18: there is one route table for all instances: it holds the entries
\* registered through every instance, in the order in which they were
\* registered, and a lookup through any instance is answered from it: by
\* the first of all these entries that matches the path
C18_OneTableForAllInstances ==
    /\ [](/\ Len(route_table) = RegisteredThrough(Instances)
          /\ \A self \in Instances :
                 IsSubsequence(registered[self], route_table))
    /\ [][ /\ \A self \in Instances :
                  registered'[self] # registered[self] =>
                      /\ Len(registered'[self]) = Len(registered[self]) + 1
                      /\ route_table'
                             = Append(route_table,
                                      registered'[self][Len(registered'[self])])
           /\ resolved' # resolved =>
                  LET hits == {i \in 1..Len(route_table) :
                                  ReMatch(route_table[i][1], resolved'.path)}
                  IN  /\ resolved'.n = Len(route_table)
                      /\ IF hits = {}
                         THEN resolved'.raised = "StopIteration"
                         ELSE /\ resolved'.raised = ""
                              /\ resolved'.handler
                                     = route_table[CHOOSE i \in hits :
                                                      \A k \in hits : i <= k][2]
         ]_vars

\* a lookup through an instance that registered nothing gave the handler
\* registered through the other instance
C18_Witness ==
    /\ resolved.self = "other"
    /\ registered["other"] = <<>>
    /\ resolved.raised = "" /\ resolved.n > 0
    /\ \E i \in 1..Len(registered[App]) :
           /\ ReMatch(registered[App][i][1], resolved.path)
           /\ registered[App][i][2] = resolved.handler
====
